---- MODULE Spec2Model ----
(***************************************************************************)
(* Model of backend/server.py: a Flask application with one route,         *)
(* POST /api/error/trigger (trigger_error), and a handler registered for   *)
(* status 500 (handle_secure_500).                                         *)
(*                                                                         *)
(* Each request is served by its own thread (app.run, Flask's threaded     *)
(* development server), so the steps of different requests interleave.     *)
(* The only state the requests share is the logging configuration made at  *)
(* import time: the root logger's FileHandler on app_errors.log and the    *)
(* StreamHandler on sys.stderr attached to app.logger.  One call of        *)
(* app.logger.error emits one record to each of them, under the handlers'  *)
(* locks, and is modelled as one atomic step.                              *)
(*                                                                         *)
(* Text is modelled as a sequence of tokens, so that an f-string is the    *)
(* concatenation of its literal part and the interpolated value, and       *)
(* "text X occurs in text Y" is a question about tokens.                   *)
(*                                                                         *)
(* The print() calls of the handlers write to the process's stdout; they   *)
(* are write-only and are represented by the local simulated_input only.   *)
(***************************************************************************)
EXTENDS Integers, Sequences, FiniteSets, TLC

\* Number of requests the server receives in one run.
NumRequests == 2

Requests == 1..NumRequests

(***************************************************************************)
(* JSON values, as Python sees them after json.loads.  One record shape    *)
(* for every type: t the type, n the number / the length of an array,      *)
(* s the string, fields the items of an object.                            *)
(***************************************************************************)
JNull      == [t |-> "null",   n |-> 0, s |-> "", fields |-> {}]
JBool(b)   == [t |-> "bool",   n |-> IF b THEN 1 ELSE 0, s |-> "", fields |-> {}]
JNumber(k) == [t |-> "number", n |-> k, s |-> "", fields |-> {}]
JString(x) == [t |-> "string", n |-> 0, s |-> x,  fields |-> {}]
JArray(k)  == [t |-> "array",  n |-> k, s |-> "", fields |-> {}]
JObject(f) == [t |-> "object", n |-> 0, s |-> "", fields |-> f]

\* Python's None, the result of get_json(silent=True) when there is nothing to parse.
None == JNull

(***************************************************************************)
(* Request bodies.  kind "none": no body; "malformed": a body that is not  *)
(* JSON (or is not sent as application/json); "json": a JSON document.     *)
(***************************************************************************)
NoBody        == [kind |-> "none",      value |-> JNull]
MalformedBody == [kind |-> "malformed", value |-> JNull]
JsonBody(v)   == [kind |-> "json",      value |-> v]

Bodies ==
    { NoBody,
      MalformedBody,
      JsonBody(JObject({})),
      JsonBody(JObject({<<"simulatedInput", "test">>})),
      JsonBody(JArray(0)),
      JsonBody(JArray(1)),
      JsonBody(JString("x")) }

\* The request's Origin header; "" when the request carries none.
Origins == {"", "http://localhost:3000"}

NoRequest == [body |-> NoBody, origin |-> ""]

(***************************************************************************)
(* Exceptions: the type name, str(e), and the frames of the traceback.     *)
(***************************************************************************)
NoExc == [type |-> "None", text |-> "", frames |-> <<>>]

ZeroDivisionError ==
    [type   |-> "ZeroDivisionError",
     text   |-> "division by zero",
     frames |-> <<"File server.py, line 43, in trigger_error">>]

AttributeError(t) ==
    [type   |-> "AttributeError",
     text   |-> CASE t = "array"  -> "'list' object has no attribute 'get'"
                  [] t = "string" -> "'str' object has no attribute 'get'"
                  [] t = "number" -> "'int' object has no attribute 'get'"
                  [] t = "bool"   -> "'bool' object has no attribute 'get'"
                  [] OTHER        -> "'NoneType' object has no attribute 'get'",
     frames |-> <<"File server.py, line 36, in trigger_error">>]

\* werkzeug's InternalServerError, which Flask passes to a handler registered
\* for 500 in place of the exception that was raised.
InternalServerError ==
    [type   |-> "InternalServerError",
     text   |-> "500 Internal Server Error: The server encountered an internal error",
     frames |-> <<>>]

(***************************************************************************)
(* The message texts of the source.                                        *)
(***************************************************************************)
SuccessMessage == <<"This should not be reached if an error occurs.">>
LocalMessage   == <<"An internal server error occurred. Please try again later.">>
GlobalMessage  ==
    <<"An unexpected internal server error occurred. Please contact support if the issue persists.">>

LocalLogPrefix  == "An error occurred during processing: "
GlobalLogPrefix == "An unhandled internal server error occurred: "
\* Flask.log_exception: "Exception on <path> [<method>]"
FlaskLogPrefix  == "Exception on /api/error/trigger [POST]"

(***************************************************************************)
(* Responses: status, JSON body {"message": ...}, and the header list      *)
(* (headers.add appends, so a name may occur more than once).              *)
(***************************************************************************)
NoResponse == [status |-> 0, body |-> [message |-> <<>>], headers |-> <<>>]

\* flask.jsonify: a response with the JSON body, of status 200 until set otherwise.
jsonify(body) ==
    [status  |-> 200,
     body    |-> body,
     headers |-> << <<"Content-Type", "application/json">> >>]

\* A view's "return response, status".
WithStatus(resp, status) == [resp EXCEPT !.status = status]

HeaderValues(resp, name) ==
    { resp.headers[i][2] : i \in { j \in DOMAIN resp.headers : resp.headers[j][1] = name } }

HasHeader(resp, name) == HeaderValues(resp, name) # {}

(***************************************************************************)
(* Outcomes of a piece of view code: it returns a response, raises, or     *)
(* falls through to the next statement.                                    *)
(***************************************************************************)
Return(resp) == [kind |-> "return", response |-> resp,       exc |-> NoExc]
Raise(e)     == [kind |-> "raise",  response |-> NoResponse, exc |-> e]

(***************************************************************************)
(* Line 35: request.get_json(silent=True).  None when there is no body,    *)
(* when the body does not parse, or when it is not sent as JSON.           *)
(***************************************************************************)
get_json(body) == IF body.kind = "json" THEN body.value ELSE None

\* Python truth value of a parsed JSON document ("if data").
Truthy(data) ==
    CASE data.t = "null"   -> FALSE
      [] data.t = "bool"   -> data.n # 0
      [] data.t = "number" -> data.n # 0
      [] data.t = "string" -> data.s # ""
      [] data.t = "array"  -> data.n # 0
      [] data.t = "object" -> data.fields # {}

\* dict.get(key, default)
DictGet(data, key, default) ==
    IF \E f \in data.fields : f[1] = key
    THEN (CHOOSE f \in data.fields : f[1] = key)[2]
    ELSE default

\* The line 36 without its "if data" guard: None.get raises as well.
ReadSimulatedInputUnguarded(data) ==
    IF data.t = "object"
    THEN [raised |-> FALSE, value |-> DictGet(data, "simulatedInput", "null"), exc |-> NoExc]
    ELSE [raised |-> TRUE,  value |-> "null", exc |-> AttributeError(data.t)]

(***************************************************************************)
(* Line 36: data.get('simulatedInput', 'null') if data else 'null'.        *)
(* The statement stands before the try of line 40.  A truthy document      *)
(* that is not a dict (a non-empty list or string, a non-zero number,      *)
(* true) has no method get: AttributeError.                                *)
(***************************************************************************)
ReadSimulatedInput(data) ==
    IF ~Truthy(data)
    THEN [raised |-> FALSE, value |-> "null", exc |-> NoExc]
    ELSE IF data.t = "object"
         THEN [raised |-> FALSE, value |-> DictGet(data, "simulatedInput", "null"), exc |-> NoExc]
         ELSE [raised |-> TRUE,  value |-> "null", exc |-> AttributeError(data.t)]

(***************************************************************************)
(* Line 43: result = 1 / 0.  Python's division raises ZeroDivisionError    *)
(* for a zero divisor.                                                     *)
(***************************************************************************)
Numerator == 1

\* A divisor that is not zero.
DivisorNonZero == Numerator

Divisor == 0

Divide(a, b) ==
    IF b = 0
    THEN [raised |-> TRUE,  value |-> 0,        exc |-> ZeroDivisionError]
    ELSE [raised |-> FALSE, value |-> a \div b, exc |-> NoExc]

\* Line 45: the return of the try block.
SuccessReturn == Return(WithStatus(jsonify([message |-> SuccessMessage]), 200))

\* An exception of the try block that is tried again instead of handled.
OnTryExceptionRetry == "try"

\* Line 47: "except Exception as e" catches what the try block raised.
OnTryException == "except"

(***************************************************************************)
(* A log record: the formatted message and, for exc_info=True, the         *)
(* exception being handled (sys.exc_info()) with its traceback.  req is    *)
(* the request whose thread made the call.                                 *)
(***************************************************************************)
LogRecord(r, msg, exc) ==
    [req      |-> r,
     level    |-> "ERROR",
     message  |-> msg,
     exc_type |-> exc.type,
     exc_text |-> exc.text,
     trace    |-> exc.frames]

\* An except clause that logs nothing.
LocalLogCallsNone(r, e, excinfo) == <<>>

\* Line 50: app.logger.error(f"An error occurred during processing: {e}", exc_info=True)
LocalLogCalls(r, e, excinfo) == << LogRecord(r, <<LocalLogPrefix, e.text>>, excinfo) >>

\* A body that tells the client what went wrong.
LocalErrorBodyLeaking(e) == [message |-> LocalMessage \o <<e.text>>]

\* Line 54: the body of the local boundary's response; e is not used.
LocalErrorBody(e) == [message |-> LocalMessage]

\* An except clause that re-raises after logging.
ExceptResultReraise(e) == Raise(e)

\* Line 54: return jsonify({...}), 500
ExceptResult(e) == Return(WithStatus(jsonify(LocalErrorBody(e)), 500))

\* Line 63: app.logger.error(f"An unhandled internal server error occurred: {e}", exc_info=True)
GlobalLogCalls(r, e, excinfo) == << LogRecord(r, <<GlobalLogPrefix, e.text>>, excinfo) >>

\* Lines 73-74 with the second headers.add left out.
HandlerHeadersOriginOnly == << <<"Access-Control-Allow-Origin", "*">> >>

\* Lines 73-74: the two headers.add calls.
HandlerHeaders ==
    << <<"Access-Control-Allow-Origin", "*">>,
       <<"Access-Control-Allow-Headers", "Content-Type">> >>

\* Lines 68-76: the response of handle_secure_500; e is not used.
HandlerResult(e) ==
    LET response == WithStatus(jsonify([message |-> GlobalMessage]), 500)
    IN  Return([response EXCEPT !.headers = @ \o HandlerHeaders])

\* An application without CORS(app): responses leave as the view made them.
no_cors_after_request(resp, origin) == resp

(***************************************************************************)
(* Line 29: CORS(app) with its defaults (origins "*", always_send,         *)
(* send_wildcard off) registers an after_request function.  A response     *)
(* that has Access-Control-Allow-Origin already is left alone; otherwise   *)
(* the header is added: the request's Origin when it sent one, "*" when    *)
(* it did not.                                                             *)
(***************************************************************************)
cors_after_request(resp, origin) ==
    IF HasHeader(resp, "Access-Control-Allow-Origin")
    THEN resp
    ELSE [resp EXCEPT !.headers =
            @ \o << <<"Access-Control-Allow-Origin", IF origin # "" THEN origin ELSE "*">> >>]

(***************************************************************************)
(* State.                                                                  *)
(***************************************************************************)
VARIABLES
    pc,               \* per request: where its thread stands
    request,          \* per request: the body and Origin header received
    simulated_input,  \* per request: the local of line 36
    exc_info,         \* per request: the exception being handled (sys.exc_info())
    rv,               \* per request: the response the view or the handler returned
    responses,        \* per request: the responses sent to the client
    logFile,          \* app_errors.log (root logger, basicConfig, filemode 'a')
    stderr            \* the StreamHandler(sys.stderr) of app.logger

vars == <<pc, request, simulated_input, exc_info, rv, responses, logFile, stderr>>

Init ==
    /\ pc = [r \in Requests |-> "idle"]
    /\ request = [r \in Requests |-> NoRequest]
    /\ simulated_input = [r \in Requests |-> "null"]
    /\ exc_info = [r \in Requests |-> NoExc]
    /\ rv = [r \in Requests |-> NoResponse]
    /\ responses = [r \in Requests |-> <<>>]
    /\ logFile = <<>>
    /\ stderr = <<>>

\* One logging call: each record goes to app.logger's StreamHandler and, by
\* propagation, to the root logger's FileHandler.
Emit(records) ==
    /\ logFile' = logFile \o records
    /\ stderr' = stderr \o records

\* A client's POST /api/error/trigger arrives.
Receive(r) ==
    /\ pc[r] = "idle"
    /\ \E b \in Bodies, o \in Origins :
          request' = [request EXCEPT ![r] = [body |-> b, origin |-> o]]
    /\ pc' = [pc EXCEPT ![r] = "view"]
    /\ UNCHANGED <<simulated_input, exc_info, rv, responses, logFile, stderr>>

\* Lines 34-38 of trigger_error, before the try.
ParseInput(r) ==
    /\ pc[r] = "view"
    /\ LET data == get_json(request[r].body)
           got  == ReadSimulatedInput(data)
       IN  IF got.raised
           THEN /\ exc_info' = [exc_info EXCEPT ![r] = got.exc]
                /\ pc' = [pc EXCEPT ![r] = "handle_exception"]
                /\ UNCHANGED simulated_input
           ELSE /\ simulated_input' = [simulated_input EXCEPT ![r] = got.value]
                /\ pc' = [pc EXCEPT ![r] = "try"]
                /\ UNCHANGED exc_info
    /\ UNCHANGED <<request, rv, responses, logFile, stderr>>

\* Lines 40-47: the try block, up to the entry of the except clause.
TryBlock(r) ==
    /\ pc[r] = "try"
    /\ LET result == Divide(Numerator, Divisor)
       IN  IF result.raised
           THEN /\ exc_info' = [exc_info EXCEPT ![r] = result.exc]
                /\ pc' = [pc EXCEPT ![r] = OnTryException]
                /\ UNCHANGED rv
           ELSE /\ rv' = [rv EXCEPT ![r] = SuccessReturn.response]
                /\ pc' = [pc EXCEPT ![r] = "finalize"]
                /\ UNCHANGED exc_info
    /\ UNCHANGED <<request, simulated_input, responses, logFile, stderr>>

\* Lines 50-51: the except clause logs the exception.
ExceptLog(r) ==
    /\ pc[r] = "except"
    /\ Emit(LocalLogCalls(r, exc_info[r], exc_info[r]))
    /\ pc' = [pc EXCEPT ![r] = "except_return"]
    /\ UNCHANGED <<request, simulated_input, exc_info, rv, responses>>

\* Line 54: the except clause returns.
ExceptReturn(r) ==
    /\ pc[r] = "except_return"
    /\ LET out == ExceptResult(exc_info[r])
       IN  IF out.kind = "return"
           THEN /\ rv' = [rv EXCEPT ![r] = out.response]
                /\ pc' = [pc EXCEPT ![r] = "finalize"]
           ELSE /\ pc' = [pc EXCEPT ![r] = "handle_exception"]
                /\ UNCHANGED rv
    /\ UNCHANGED <<request, simulated_input, exc_info, responses, logFile, stderr>>

(***************************************************************************)
(* Flask.handle_exception, for an exception that left the view (debug is   *)
(* off, line 83, so it is not re-raised): log_exception writes             *)
(* "Exception on <path> [<method>]" with the traceback through app.logger, *)
(* then the handler registered for 500 (line 60) is looked up.             *)
(***************************************************************************)
FlaskHandleException(r) ==
    /\ pc[r] = "handle_exception"
    /\ Emit(<< LogRecord(r, <<FlaskLogPrefix>>, exc_info[r]) >>)
    /\ pc' = [pc EXCEPT ![r] = "handler"]
    /\ UNCHANGED <<request, simulated_input, exc_info, rv, responses>>

\* Lines 63-64 of handle_secure_500(e), e the InternalServerError made by Flask.
HandlerLog(r) ==
    /\ pc[r] = "handler"
    /\ Emit(GlobalLogCalls(r, InternalServerError, exc_info[r]))
    /\ pc' = [pc EXCEPT ![r] = "handler_return"]
    /\ UNCHANGED <<request, simulated_input, exc_info, rv, responses>>

\* Lines 68-76 of handle_secure_500.
HandlerReturn(r) ==
    /\ pc[r] = "handler_return"
    /\ rv' = [rv EXCEPT ![r] = HandlerResult(InternalServerError).response]
    /\ pc' = [pc EXCEPT ![r] = "finalize"]
    /\ UNCHANGED <<request, simulated_input, exc_info, responses, logFile, stderr>>

\* Flask.finalize_request: the after_request functions run and the response is sent.
Finalize(r) ==
    /\ pc[r] = "finalize"
    /\ responses' = [responses EXCEPT ![r] =
                        Append(@, cors_after_request(rv[r], request[r].origin))]
    /\ pc' = [pc EXCEPT ![r] = "done"]
    /\ UNCHANGED <<request, simulated_input, exc_info, rv, logFile, stderr>>

\* What the server does for a request it has received.
Serve(r) ==
    \/ ParseInput(r)
    \/ TryBlock(r)
    \/ ExceptLog(r)
    \/ ExceptReturn(r)
    \/ FlaskHandleException(r)
    \/ HandlerLog(r)
    \/ HandlerReturn(r)
    \/ Finalize(r)

Next == \E r \in Requests : Receive(r) \/ Serve(r)

Spec == Init /\ [][Next]_vars

\* Every request has a thread of its own, which runs when it can.
FairSpec == Spec /\ \A r \in Requests : WF_vars(Serve(r))

(***************************************************************************)
(* Vocabulary of the properties.                                           *)
(***************************************************************************)
Done(r) == pc[r] = "done"

Answered(r) == Len(responses[r]) > 0

\* The responses a request has produced: sent, or returned and about to be sent.
Produced(r) ==
    { responses[r][i] : i \in DOMAIN responses[r] }
        \cup (IF rv[r] = NoResponse THEN {} ELSE {rv[r]})

\* The entries of app_errors.log written while serving r.
EntriesOf(r) == { i \in DOMAIN logFile : logFile[i].req = r }

EntriesWith(r, prefix) == { i \in EntriesOf(r) : logFile[i].message[1] = prefix }

\* The except clause of trigger_error handled r's failure.
LocalBoundaryRan(r) == EntriesWith(r, LocalLogPrefix) # {}

\* handle_secure_500 handled r's failure.
GlobalBoundaryRan(r) == EntriesWith(r, GlobalLogPrefix) # {}

\* An exception left trigger_error while serving r and reached Flask.
Escaped(r) == EntriesWith(r, FlaskLogPrefix) # {}

\* The handling of r raised an exception.
Failed(r) == exc_info[r] # NoExc

Exceptions ==
    { ZeroDivisionError, InternalServerError }
        \cup { AttributeError(t) : t \in {"bool", "number", "string", "array", "null"} }

\* Every piece of text that comes from an exception: type name, message, stack frame.
ExceptionTokens ==
    UNION { {e.type, e.text} \cup { e.frames[i] : i \in DOMAIN e.frames } : e \in Exceptions }

Leaks(resp) ==
    \E i \in DOMAIN resp.body.message : resp.body.message[i] \in ExceptionTokens

LocalBody  == [message |-> LocalMessage]
GlobalBody == [message |-> GlobalMessage]

\* The control-flow path of r, as far as it shows: which code logged for it,
\* in which exception, and where it stands.
PathOf(r) ==
    << { logFile[i].message[1] : i \in EntriesOf(r) }, exc_info[r].type, pc[r] >>

\* Bodies that differ in input content only: no body, {}, {"simulatedInput": v}.
InputContentOnly(body) ==
    \/ body.kind = "none"
    \/ /\ body.kind = "json"
       /\ body.value.t = "object"
       /\ \A f \in body.value.fields : f[1] = "simulatedInput"

(***************************************************************************)
(* C1: every request to POST /api/error/trigger, whatever its body, is     *)
(* answered with status 500 and the body {"message": <local message>}.     *)
(* Fails: a truthy JSON document that is not an object makes line 36       *)
(* raise before the try, and the client gets the global handler's body.    *)
(***************************************************************************)
C1_AlwaysLocalResponse ==
    \A r \in Requests :
        Done(r) =>
            /\ Len(responses[r]) = 1
            /\ responses[r][1].status = 500
            /\ responses[r][1].body = LocalBody

(***************************************************************************)
(* C2: on the local and on the global error path the body of a response    *)
(* is one of the two fixed messages and holds no exception text, type      *)
(* name, file path, line number or stack frame; what the exception says    *)
(* is found in the log only.                                               *)
(***************************************************************************)
C2_NoExceptionDetailInResponse ==
    \A r \in Requests :
        \A resp \in Produced(r) :
            /\ resp.body \in {LocalBody, GlobalBody}
            /\ ~Leaks(resp)
            /\ Failed(r) => \E i \in EntriesOf(r) : logFile[i].exc_text = exc_info[r].text

C2_Witness ==
    \E r1, r2 \in Requests :
        /\ Done(r1) /\ LocalBoundaryRan(r1) /\ Answered(r1)
        /\ Done(r2) /\ GlobalBoundaryRan(r2) /\ Answered(r2)

(***************************************************************************)
(* C3: the log file holds exactly one entry for each failed request, with  *)
(* the exception message and a non-empty stack trace, on the local and on  *)
(* the global path.  Fails on the global path: Flask's handle_exception    *)
(* logs the exception before handle_secure_500 logs it again.              *)
(***************************************************************************)
C3_ExactlyOneLogEntryPerFailure ==
    \A r \in Requests :
        (Done(r) /\ Failed(r)) =>
            /\ Cardinality(EntriesOf(r)) = 1
            /\ \A i \in EntriesOf(r) :
                  /\ logFile[i].exc_text # ""
                  /\ logFile[i].trace # <<>>

(***************************************************************************)
(* C4: when an exception is raised outside the try block of trigger_error, *)
(* the client receives status 500, the body {"message": <global message>}, *)
(* Access-Control-Allow-Origin: * and                                      *)
(* Access-Control-Allow-Headers: Content-Type.                             *)
(***************************************************************************)
C4_GlobalHandlerResponse ==
    \A r \in Requests :
        (Done(r) /\ Escaped(r)) =>
            /\ Len(responses[r]) = 1
            /\ responses[r][1].status = 500
            /\ responses[r][1].body = GlobalBody
            /\ HeaderValues(responses[r][1], "Access-Control-Allow-Origin") = {"*"}
            /\ HeaderValues(responses[r][1], "Access-Control-Allow-Headers") = {"Content-Type"}

C4_Witness ==
    \E r \in Requests :
        /\ Done(r) /\ Escaped(r) /\ Answered(r)
        /\ request[r].origin # ""
        /\ exc_info[r].frames = <<"File server.py, line 36, in trigger_error">>

(***************************************************************************)
(* C5: two requests whose bodies differ in input content only (no body,    *)
(* {}, {"simulatedInput": v}) get the same status and body and take the    *)
(* same path; simulatedInput only reaches the local that is printed.       *)
(***************************************************************************)
C5_InputContentHasNoEffect ==
    \A r1, r2 \in Requests :
        ( /\ Done(r1) /\ Done(r2)
          /\ InputContentOnly(request[r1].body)
          /\ InputContentOnly(request[r2].body) ) =>
            /\ Len(responses[r1]) = Len(responses[r2])
            /\ \A i \in DOMAIN responses[r1] :
                  /\ responses[r1][i].status = responses[r2][i].status
                  /\ responses[r1][i].body = responses[r2][i].body
            /\ PathOf(r1) = PathOf(r2)

C5_Witness ==
    \E r1, r2 \in Requests :
        /\ Done(r1) /\ Done(r2)
        /\ request[r1].body = NoBody
        /\ request[r2].body = JsonBody(JObject({<<"simulatedInput", "test">>}))
        /\ simulated_input[r1] = "null"
        /\ simulated_input[r2] = "test"
        /\ Answered(r1) /\ Answered(r2)

(***************************************************************************)
(* C6: the success return of trigger_error is never reached: no request    *)
(* gets status 200 or the success message, the division raises first.      *)
(***************************************************************************)
C6_SuccessUnreachable ==
    \A r \in Requests :
        /\ \A resp \in Produced(r) :
              /\ resp.status # 200
              /\ resp.body.message # SuccessMessage
        /\ pc[r] \in {"except", "except_return"} => exc_info[r] = ZeroDivisionError

C6_Witness ==
    \E r \in Requests :
        /\ Done(r) /\ Answered(r)
        /\ exc_info[r] = ZeroDivisionError
        /\ request[r].body = JsonBody(JObject({<<"simulatedInput", "test">>}))

(***************************************************************************)
(* C7: every response sent, by the local boundary or by the global         *)
(* handler, to a request with or without an Origin header, carries         *)
(* Access-Control-Allow-Origin, allowing the asking origin.                *)
(***************************************************************************)
C7_EveryResponseAllowsOrigin ==
    \A r \in Requests :
        \A i \in DOMAIN responses[r] :
            /\ HasHeader(responses[r][i], "Access-Control-Allow-Origin")
            /\ HeaderValues(responses[r][i], "Access-Control-Allow-Origin")
                  \subseteq {"*", request[r].origin} \ {""}

C7_Witness ==
    \E r1, r2 \in Requests :
        /\ Answered(r1) /\ LocalBoundaryRan(r1) /\ request[r1].origin = ""
        /\ Answered(r2) /\ GlobalBoundaryRan(r2) /\ request[r2].origin # ""

(***************************************************************************)
(* C8: the exception is logged, with message and stack trace, before the   *)
(* response is produced: a request that has a 500 response, returned or    *)
(* sent, has an entry of its boundary in the log already.                  *)
(***************************************************************************)
C8_LoggedBeforeResponse ==
    \A r \in Requests :
        (\E resp \in Produced(r) : resp.status = 500) =>
            \E i \in EntriesWith(r, LocalLogPrefix) \cup EntriesWith(r, GlobalLogPrefix) :
                /\ logFile[i].exc_text # ""
                /\ logFile[i].trace # <<>>

C8_Witness ==
    \E r1, r2 \in Requests :
        /\ pc[r1] = "finalize" /\ rv[r1].status = 500 /\ LocalBoundaryRan(r1)
        /\ pc[r2] = "finalize" /\ rv[r2].status = 500 /\ GlobalBoundaryRan(r2)

(***************************************************************************)
(* C9: a failed request is handled by one boundary only: what the except   *)
(* clause of trigger_error caught never reaches handle_secure_500, which   *)
(* runs only for exceptions that left the view; the client gets the        *)
(* message of the boundary that ran.                                       *)
(***************************************************************************)
C9_OneBoundaryPerRequest ==
    \A r \in Requests :
        /\ ~(LocalBoundaryRan(r) /\ GlobalBoundaryRan(r))
        /\ Cardinality(EntriesWith(r, LocalLogPrefix)) <= 1
        /\ Cardinality(EntriesWith(r, GlobalLogPrefix)) <= 1
        /\ GlobalBoundaryRan(r) => Escaped(r)
        /\ LocalBoundaryRan(r) => ~Escaped(r)
        /\ (Done(r) /\ Failed(r)) =>
              /\ LocalBoundaryRan(r) \/ GlobalBoundaryRan(r)
              /\ \A i \in DOMAIN responses[r] :
                    responses[r][i].body =
                        IF LocalBoundaryRan(r) THEN LocalBody ELSE GlobalBody

C9_Witness ==
    \E r1, r2 \in Requests :
        /\ Done(r1) /\ Failed(r1) /\ LocalBoundaryRan(r1) /\ responses[r1][1].body = LocalBody
        /\ Done(r2) /\ Failed(r2) /\ GlobalBoundaryRan(r2) /\ responses[r2][1].body = GlobalBody

(***************************************************************************)
(* C10: every request the server has accepted is eventually answered, and  *)
(* with one response only, on either path; none is tried again and none    *)
(* is left without a response.                                             *)
(***************************************************************************)
C10_EveryRequestAnsweredOnce ==
    /\ [](\A r \in Requests : Len(responses[r]) <= 1)
    /\ \A r \in Requests : (pc[r] # "idle") ~> (Done(r) /\ Len(responses[r]) = 1)

C10_Witness ==
    /\ \A r \in Requests : Done(r) /\ Len(responses[r]) = 1
    /\ \E r1, r2 \in Requests : LocalBoundaryRan(r1) /\ GlobalBoundaryRan(r2)

====
